---- MODULE Spec2Model ----
(***************************************************************************)
(* A model of the quantumflow operation algebra: operations.py             *)
(* (QuantumOperation, QuantumGate, QuantumStdGate, QuantumStdCtrlGate,     *)
(* QuantumComposite) and stdops.py (Moment, Measure, Reset, If, Store,     *)
(* Barrier, Project0/1).                                                   *)
(*                                                                         *)
(* The library is a collection of constructors and pure methods.  The      *)
(* state of a run is the object most recently produced (cur), the record   *)
(* of the last call (call: function, receiver, inputs, outcome) and the    *)
(* position of the run (phase).  The type registries are filled by the     *)
(* class statements of the run.                                            *)
(***************************************************************************)
EXTENDS Integers, Sequences, FiniteSets, TLC

VARIABLES cur, call, phase, OPERATIONS, GATES, STDGATES, STDCTRLGATES

\* The four type registries: dicts from a type's name to the type.
regs == <<OPERATIONS, GATES, STDGATES, STDCTRLGATES>>

vars == <<cur, call, phase, OPERATIONS, GATES, STDGATES, STDCTRLGATES>>

(***************************************************************************)
(* Bounds of the model.                                                    *)
(***************************************************************************)
\* Qubit and address labels are 0 .. NQubits-1.
NQubits == 2

\* The random samples of a measurement are 0/RGrid, 1/RGrid, ... below 1.
RGrid == 4

\* The gates whose operators are computed act on qubits 0 .. MaxGateQubits-1.
MaxGateQubits == 3

Qubits == 0 .. (NQubits - 1)

(***************************************************************************)
(* Sequences, tuples and dictionaries as Python has them.                  *)
(***************************************************************************)
Range(s) == {s[i] : i \in DOMAIN s}

SeqsUpTo(S, n) == UNION {[1..k -> S] : k \in 0..n}

\* The lists of no, one or two members of S.
UpToTwo(S) == {<<>>} \cup {<<a>> : a \in S} \cup {<<a, b>> : a \in S, b \in S}

\* len(xs) != len(set(xs))
HasDup(s) == \E i, j \in DOMAIN s : i < j /\ s[i] = s[j]

Reverse(s) == [i \in 1..Len(s) |-> s[Len(s) + 1 - i]]

RECURSIVE SortedSeq(_)
\* tuple(sorted(S)) for a set of integers
SortedSeq(S) ==
  IF S = {} THEN <<>>
  ELSE LET m == CHOOSE x \in S : \A y \in S : x <= y
       IN <<m>> \o SortedSeq(S \ {m})

\* An optional argument: None, or a value.
NoneArg == [some |-> FALSE, v |-> <<>>]
Some(x) == [some |-> TRUE, v |-> x]

\* A dict is a sequence of <<key, value>> pairs with distinct keys, in
\* insertion order.
DictKeys(d) == {d[i][1] : i \in DOMAIN d}
DictValues(d) == [i \in DOMAIN d |-> d[i][2]]
DictGet(d, k) == LET i == CHOOSE i \in DOMAIN d : d[i][1] = k IN d[i][2]
DictSet(d, k, v) ==
  IF k \in DictKeys(d)
  THEN [i \in DOMAIN d |-> IF d[i][1] = k THEN <<k, v>> ELSE d[i]]
  ELSE Append(d, <<k, v>>)

RECURSIVE DictZipFrom(_, _, _, _)
DictZipFrom(d, ks, vs, i) ==
  IF i > Len(ks) \/ i > Len(vs) THEN d
  ELSE DictZipFrom(DictSet(d, ks[i], vs[i]), ks, vs, i + 1)

\* dict(zip(ks, vs)): a repeated key keeps its first position and its last value
DictZip(ks, vs) == DictZipFrom(<<>>, ks, vs, 1)

(***************************************************************************)
(* Objects and outcomes.                                                   *)
(***************************************************************************)
MkOp(kind, name, qubits, addrs, args, elements) ==
  [kind |-> kind, name |-> name, qubits |-> qubits, addrs |-> addrs,
   args |-> args, elements |-> elements]

NoObj == MkOp("none", "", <<>>, <<>>, <<>>, <<>>)

Ok(v) == [ok |-> TRUE, err |-> "", val |-> v]
Fail(e) == [ok |-> FALSE, err |-> e, val |-> NoObj]

MkCall(fn, recv, inp, res) == [fn |-> fn, recv |-> recv, inp |-> inp, res |-> res]

NoCall == MkCall("", NoObj, <<>>, "")

(***************************************************************************)
(* QuantumOperation and QuantumStdGate (operations.py).                    *)
(***************************************************************************)
\* The concrete standard gate types of the run.
GateTypes == {"X", "CNOT", "RX", "S", "S_H"}

\* cls.cv_qubit_nb: the number of Qubit-annotated constructor arguments
cv_qubit_nb(name) == IF name = "CNOT" THEN 2 ELSE 1

\* cls.cv_params: the Variable-annotated constructor arguments
cv_params(name) == IF name = "RX" THEN <<"theta">> ELSE <<>>

\* QuantumStdGate.__init__(*args_qubits):
\*   args = args_qubits[0 : -cv_qubit_nb]; qubits = args_qubits[-cv_qubit_nb :]
StdGateInit(name, args_qubits) ==
  LET n == cv_qubit_nb(name)
      L == Len(args_qubits)
      k == IF L > n THEN L - n ELSE 0
  IN MkOp("gate", name, SubSeq(args_qubits, k + 1, L), <<>>,
          SubSeq(args_qubits, 1, k), <<>>)

\* QuantumStdGate.relabel: tuple(qubit_map[q] for q in self.qubits), then
\* type(self)(*self.args, *qubits).  A None map fails on the first lookup.
StdGateRelabel(g, qm) ==
  IF g.qubits = <<>> THEN Ok(StdGateInit(g.name, g.args))
  ELSE IF ~qm.some THEN Fail("TypeError")
  ELSE IF ~(Range(g.qubits) \subseteq DictKeys(qm.v)) THEN Fail("KeyError")
  ELSE Ok(StdGateInit(g.name,
            g.args \o [i \in 1..Len(g.qubits) |-> DictGet(qm.v, g.qubits[i])]))

\* The standard gates that are controlled gates, and cls.cv_target
CtrlTypes == {"CNOT"}
cv_target(name) == IF name = "CNOT" THEN "X" ELSE ""

\* QuantumStdCtrlGate.control_qubit_nb
control_qubit_nb(g) == cv_qubit_nb(g.name) - cv_qubit_nb(cv_target(g.name))

\* QuantumStdCtrlGate.control_qubits: self.qubits[: self.control_qubit_nb]
control_qubits(g) ==
  SubSeq(g.qubits, 1, IF control_qubit_nb(g) < Len(g.qubits)
                      THEN control_qubit_nb(g) ELSE Len(g.qubits))

\* target_qubits = self.qubits[self.control_qubit_nb :]
TargetQubits(g) == SubSeq(g.qubits, control_qubit_nb(g) + 1, Len(g.qubits))

\* QuantumStdCtrlGate.target: self.cv_target(*self.args, *target_qubits)
Target(g) == StdGateInit(cv_target(g.name), g.args \o TargetQubits(g))

\* The adjoint of a standard gate: X and CNOT are hermitian, S and S_H are
\* each other's adjoint, RX negates its angle.
GateH(g) ==
  LET nm == CASE g.name = "S"   -> "S_H"
              [] g.name = "S_H" -> "S"
              [] OTHER          -> g.name
      as == IF g.name = "RX" THEN [i \in DOMAIN g.args |-> 0 - g.args[i]]
            ELSE g.args
  IN [g EXCEPT !.name = nm, !.args = as]

(***************************************************************************)
(* QuantumComposite (operations.py).                                       *)
(***************************************************************************)
ElemQubits(elements) ==
  SortedSeq(UNION {Range(elements[i].qubits) : i \in DOMAIN elements})

ElemAddrs(elements) ==
  SortedSeq(UNION {Range(elements[i].addrs) : i \in DOMAIN elements})

\* A constructor that accepts any explicit qubits and addrs.
CompositeInit_unchecked(name, elements, qubits, addrs) ==
  Ok(MkOp("comp", name,
          IF qubits.some THEN qubits.v ELSE ElemQubits(elements),
          IF addrs.some THEN addrs.v ELSE ElemAddrs(elements),
          <<>>, elements))

\* QuantumComposite.__init__(*elements, qubits=None, addrs=None)
CompositeInit(name, elements, qubits, addrs) ==
  IF qubits.some /\ ~(Range(ElemQubits(elements)) \subseteq Range(qubits.v))
  THEN Fail("Incommensurate qubits")
  ELSE IF addrs.some /\ ~(Range(ElemAddrs(elements)) \subseteq Range(addrs.v))
  THEN Fail("Incommensurate addresses")
  ELSE Ok(MkOp("comp", name,
               IF qubits.some THEN qubits.v ELSE ElemQubits(elements),
               IF addrs.some THEN addrs.v ELSE ElemAddrs(elements),
               <<>>, elements))

\* The first failure of a list of outcomes, in evaluation order.
FirstFail(rs) ==
  LET i == CHOOSE i \in DOMAIN rs : ~rs[i].ok /\ \A j \in 1..(i - 1) : rs[j].ok
  IN Fail(rs[i].err)

AllOk(rs) == \A i \in DOMAIN rs : rs[i].ok

Vals(rs) == [i \in DOMAIN rs |-> rs[i].val]

\* copy.copy(self)
CopyOf(op) == op

\* QuantumGate.relabel, of a gate whose type does not override it: the
\* qubits are set on a copy.
GateRelabel(g, qm) ==
  IF g.qubits = <<>> THEN Ok(CopyOf(g))
  ELSE IF ~qm.some THEN Fail("TypeError")
  ELSE IF ~(Range(g.qubits) \subseteq DictKeys(qm.v)) THEN Fail("KeyError")
  ELSE Ok([CopyOf(g) EXCEPT !.qubits = [i \in 1..Len(g.qubits) |-> DictGet(qm.v, g.qubits[i])]])

\* The receiver after op.relabel returned r: every relabel builds a new
\* object (type(self)(...)) or writes to a copy (op._qubits = qubits).
SelfAfterRelabel(op, r) == op

RECURSIVE Relabel(_, _, _)
\* op.relabel(qubit_map, addr_map): QuantumStdGate.relabel for a standard
\* gate, QuantumGate.relabel for another gate, QuantumComposite.relabel for
\* a composite.
Relabel(op, qm, am) ==
  IF op.kind = "gate"
  THEN (IF op.name \in GateTypes THEN StdGateRelabel(op, qm) ELSE GateRelabel(op, qm))
  ELSE LET rs == [i \in DOMAIN op.elements |-> Relabel(op.elements[i], qm, am)]
       IN IF ~AllOk(rs) THEN FirstFail(rs)
          ELSE CompositeInit(op.name, Vals(rs),
                 Some(IF qm.some THEN DictValues(qm.v) ELSE op.qubits),
                 Some(IF am.some THEN DictValues(am.v) ELSE op.addrs))

\* QuantumOperation.on(qubits)
On(op, qubits) ==
  IF Len(qubits) # Len(op.qubits) THEN Fail("Wrong number of qubits")
  ELSE Relabel(op, Some(DictZip(op.qubits, qubits)), NoneArg)

\* A composite adjoint that keeps the children's order.
HOrder_kept(elements) == elements

\* self._elements[::-1]
HOrder(elements) == Reverse(elements)

RECURSIVE OpH(_)
\* op.H: the gate's adjoint, or QuantumComposite.H
OpH(op) ==
  IF op.kind = "gate" THEN Ok(GateH(op))
  ELSE LET rs == [i \in DOMAIN op.elements |-> OpH(HOrder(op.elements)[i])]
       IN IF ~AllOk(rs) THEN FirstFail(rs)
          ELSE CompositeInit(op.name, Vals(rs), Some(op.qubits), Some(op.addrs))

RECURSIVE OpEq(_, _)
\* a == b: QuantumStdGate.__eq__ for gates, QuantumComposite.__eq__ for
\* composites (children compared in order); objects of different types are
\* not equal.
OpEq(a, b) ==
  IF a.kind # b.kind \/ a.name # b.name THEN FALSE
  ELSE IF a.kind = "gate" THEN a.qubits = b.qubits /\ a.args = b.args
  ELSE /\ Len(a.elements) = Len(b.elements)
       /\ a.qubits = b.qubits
       /\ a.addrs = b.addrs
       /\ \A i \in DOMAIN a.elements : OpEq(a.elements[i], b.elements[i])

(***************************************************************************)
(* Moment (stdops.py).  A Moment wraps a Circuit (self._circ); the model   *)
(* keeps the circuit's elements and qubits in the Moment object.           *)
(***************************************************************************)
RECURSIVE QubitList(_)
\* list(q for elem in circ for q in elem.qubits)
QubitList(elements) ==
  IF elements = <<>> THEN <<>>
  ELSE Head(elements).qubits \o QubitList(Tail(elements))

\* A constructor whose disjointness test was left out.
NotDisjoint_never(elements) == FALSE

\* The disjointness test of Moment.__init__: len(qbs) != len(set(qbs))
NotDisjoint(elements) == HasDup(QubitList(elements))

\* Moment.__init__(*elements, qubits=None) for elementary operations.  The
\* Circuit of the circuits module is the Composite of the specification:
\* it holds the operations in order, and its qubits are the sorted union
\* of theirs or the explicit ones, which must cover them.
MomentInit(elements, qubits) ==
  LET circ == CompositeInit("Circuit", elements, qubits, NoneArg)
  IN IF ~circ.ok THEN circ
     ELSE IF NotDisjoint(circ.val.elements)
     THEN Fail("Qubits of operations within Moments must be disjoint.")
     ELSE Ok(MkOp("moment", "Moment", circ.val.qubits, <<>>, <<>>,
                  circ.val.elements))

\* Moment(c) for a circuit c of elementary operations: the Moment of the
\* operations of c.
MomentOfCircuit(c) == MomentInit(c.elements, NoneArg)

\* self._circ
MomentCirc(m) == MkOp("comp", "Circuit", m.qubits, <<>>, <<>>, m.elements)

\* Circuit(self): a circuit of the Moment's children, qubits not given
CircuitOf(m) == CompositeInit("Circuit", m.elements, NoneArg, NoneArg).val

\* Moment.H: Moment(self._circ.H); the adjoint is the composite's
MomentH(m) ==
  LET h == OpH(MomentCirc(m))
  IN IF ~h.ok THEN h ELSE MomentOfCircuit(h.val)

\* Moment.on(*qubits): Moment(Circuit(self).on(*qubits)); on is the
\* arity-checked relabel of the composite
MomentOn(m, qubits) ==
  LET c == On(CircuitOf(m), qubits)
  IN IF ~c.ok THEN c ELSE MomentOfCircuit(c.val)

\* Moment.rewire(labels): Moment(Circuit(self).rewire(labels)); rewire is
\* the relabel of the composite by a qubit map
MomentRewire(m, labels) ==
  LET c == Relabel(CircuitOf(m), Some(labels), NoneArg)
  IN IF ~c.ok THEN c ELSE MomentOfCircuit(c.val)

(***************************************************************************)
(* The inputs of the calls.                                                *)
(***************************************************************************)
\* Operations handed to the composite constructors as children.
Pool ==
  { StdGateInit("X", <<0>>),
    StdGateInit("S", <<1>>),
    StdGateInit("CNOT", <<0, 1>>),
    StdGateInit("RX", <<1, 1>>),
    CompositeInit("Circuit", <<StdGateInit("X", <<0>>), StdGateInit("S", <<0>>)>>,
                  NoneArg, NoneArg).val,
    CompositeInit("Circuit", <<>>, Some(<<1>>), NoneArg).val,
    CompositeInit("Circuit", <<>>, NoneArg, Some(<<0>>)).val }

ElemLists == UpToTwo(Pool)

\* Children of a Moment: the elementary operations.
MomentElemLists == UpToTwo({e \in Pool : e.kind = "gate"})

\* Qubit (and address) tuples given explicitly.
Tuples == UpToTwo(Qubits)

\* The (qubits, addrs) keyword arguments of a composite constructor.
ClosureArgs ==
  {<<NoneArg, NoneArg>>}
    \cup {<<Some(t), NoneArg>> : t \in Tuples}
    \cup {<<NoneArg, Some(t)>> : t \in {<<>>, <<0>>}}
    \cup {<<Some(<<1, 0>>), Some(<<0>>)>>}

\* Relabelling maps: dicts of at most two entries.
Maps ==
  {d \in UpToTwo(Qubits \X Qubits) : Len(d) = 2 => d[1][1] # d[2][1]}

\* The (qubit_map, addr_map) arguments of relabel.
RelabelArgs ==
  {<<Some(d), NoneArg>> : d \in Maps}
    \cup {<<NoneArg, NoneArg>>, <<NoneArg, Some(<<<<0, 1>>>>)>>}
    \cup {<<Some(<<<<0, 1>>, <<1, 0>>>>), Some(<<<<0, 1>>>>)>>}

(***************************************************************************)
(* The run: an object is constructed, then relabelled, then its adjoint    *)
(* is taken up to twice.                                                   *)
(***************************************************************************)
Outcome(r) == IF r.ok THEN "ok" ELSE r.err

Returned(fn, inp, r, ph) ==
  /\ call' = MkCall(fn, cur, inp, Outcome(r))
  /\ cur' = IF r.ok THEN r.val ELSE cur
  /\ phase' = IF r.ok THEN ph ELSE phase
  /\ UNCHANGED regs

NoTypes == [n \in {} |-> NoObj]

InitOps ==
  /\ cur = NoObj
  /\ call = NoCall
  /\ phase = "start"
  /\ OPERATIONS = NoTypes /\ GATES = NoTypes
  /\ STDGATES = NoTypes /\ STDCTRLGATES = NoTypes

NewStdGate ==
  /\ phase = "start"
  /\ \E name \in GateTypes, aq \in SeqsUpTo(Qubits, NQubits + 1) :
       Returned("StdGate", [name |-> name, args_qubits |-> aq],
                Ok(StdGateInit(name, aq)), "built")

\* A gate of a type that does not override relabel.
NewPlainGate ==
  /\ phase = "start"
  /\ \E qs \in Tuples :
       Returned("Gate", [qubits |-> qs],
                Ok(MkOp("gate", "Gate", qs, <<>>, <<>>, <<>>)), "built")

NewComposite ==
  /\ phase = "start"
  /\ \E es \in ElemLists, qa \in ClosureArgs :
       Returned("Composite", [elements |-> es, qubits |-> qa[1], addrs |-> qa[2]],
                CompositeInit("Circuit", es, qa[1], qa[2]), "built")

NewMoment ==
  /\ phase = "start"
  /\ \E es \in MomentElemLists, q \in {NoneArg} \cup {Some(t) : t \in Tuples} :
       Returned("Moment", [elements |-> es, qubits |-> q],
                MomentInit(es, q), "built")

CallOn ==
  /\ phase = "built"
  /\ \E qs \in Tuples :
       LET r == IF cur.kind = "moment" THEN MomentOn(cur, qs) ELSE On(cur, qs)
       IN Returned("on", [qubits |-> qs, self |-> SelfAfterRelabel(cur, r)], r,
                   "relabelled")

\* g.target, with g.control_qubits and g.control_qubit_nb alongside
CallTarget ==
  /\ phase = "built"
  /\ cur.kind = "gate" /\ cur.name \in CtrlTypes
  /\ Returned("target",
              [control_qubit_nb |-> control_qubit_nb(cur),
               control_qubits |-> control_qubits(cur)],
              Ok(Target(cur)), "target")

CallRelabel ==
  /\ phase = "built"
  /\ \E ms \in RelabelArgs :
       /\ cur.kind = "moment" => ms[1].some /\ ~ms[2].some
       /\ Returned("relabel", [qubit_map |-> ms[1], addr_map |-> ms[2]],
                    IF cur.kind = "moment" THEN MomentRewire(cur, ms[1].v)
                    ELSE Relabel(cur, ms[1], ms[2]),
                    "relabelled")

CallH ==
  /\ phase \in {"built", "relabelled", "H"}
  /\ Returned("H",
              [of |-> IF call.fn = "H" /\ call.res = "ok" THEN call.recv ELSE NoObj],
              IF cur.kind = "moment" THEN MomentH(cur) ELSE OpH(cur),
              IF phase = "H" THEN "HH" ELSE "H")

NextOps ==
  \/ NewStdGate
  \/ NewPlainGate
  \/ NewComposite
  \/ NewMoment
  \/ CallOn
  \/ CallTarget
  \/ CallRelabel
  \/ CallH

SpecOps == InitOps /\ [][NextOps]_vars

(***************************************************************************)
(* Properties of the operation algebra (SpecOps).                          *)
(***************************************************************************)
Disjoint(a, b) == Range(a.qubits) \cap Range(b.qubits) = {}

PairwiseDisjoint(elements) ==
  \A i, j \in DOMAIN elements : i < j => Disjoint(elements[i], elements[j])

DisjointError == "Qubits of operations within Moments must be disjoint."

\* The explicit qubits of a Moment call, when given, cover the operations.
Covering ==
  call.inp.qubits.some =>
    \A i \in DOMAIN call.inp.elements :
      Range(call.inp.elements[i].qubits) \subseteq Range(call.inp.qubits.v)

C1_WitnessShared ==
  /\ call.fn = "Moment" /\ call.res = DisjointError
  /\ Len(call.inp.elements) = 2 /\ ~PairwiseDisjoint(call.inp.elements)
  /\ cur.kind # "moment"

\* C1 witness: a Moment of two disjoint operations has been constructed.
C1_WitnessBuilt ==
  /\ call.fn = "Moment" /\ call.res = "ok"
  /\ cur.kind = "moment" /\ Len(cur.elements) = 2
  /\ cur.elements = call.inp.elements

RECURSIVE Closed(_)
\* A composite covers its children, and so do the composites below it.
Closed(op) ==
  op.kind = "comp" =>
    \A i \in DOMAIN op.elements :
      /\ Range(op.elements[i].qubits) \subseteq Range(op.qubits)
      /\ Range(op.elements[i].addrs) \subseteq Range(op.addrs)
      /\ Closed(op.elements[i])

Increasing(s) == \A i, j \in DOMAIN s : i < j => s[i] < s[j]

ChildQubits(elements) == UNION {Range(elements[i].qubits) : i \in DOMAIN elements}

ChildAddrs(elements) == UNION {Range(elements[i].addrs) : i \in DOMAIN elements}

\* C2: every composite that exists (constructed, or returned by H, on or
\* relabel) has qubits and addrs that cover those of its children.  A
\* constructor call without explicit qubits (addrs) yields exactly the
\* sorted, duplicate-free union; with explicit ones that do not cover the
\* children it fails with an Incommensurate error.
C2_Closure ==
  /\ Closed(cur)
  /\ call.fn = "Composite" =>
       LET es == call.inp.elements
           q == call.inp.qubits
           a == call.inp.addrs
           qbad == q.some /\ ~(ChildQubits(es) \subseteq Range(q.v))
           abad == a.some /\ ~(ChildAddrs(es) \subseteq Range(a.v))
       IN /\ qbad => call.res = "Incommensurate qubits" /\ cur = call.recv
          /\ (~qbad /\ abad) =>
               call.res = "Incommensurate addresses" /\ cur = call.recv
          /\ (~qbad /\ ~abad) =>
               /\ call.res = "ok" /\ cur.kind = "comp" /\ cur.elements = es
               /\ ~q.some => Increasing(cur.qubits) /\ Range(cur.qubits) = ChildQubits(es)
               /\ ~a.some => Increasing(cur.addrs) /\ Range(cur.addrs) = ChildAddrs(es)
               /\ q.some => cur.qubits = q.v
               /\ a.some => cur.addrs = a.v

\* C2 witness: relabel returned a composite with children whose qubits are
\* wider than the union of its children's.
C2_Witness ==
  /\ call.fn = "relabel" /\ call.res = "ok"
  /\ cur.kind = "comp" /\ cur.elements # <<>>
  /\ Range(cur.qubits) # ChildQubits(cur.elements)

\* C3 as stated: the qubit tuple of every operation that exists has no
\* duplicate qubit.
C3_NoDuplicateQubits ==
  cur.kind \in {"gate", "comp"} => ~HasDup(cur.qubits)

\* C3: a gate returned by on(newQubits) that repeats a qubit, from a gate
\* that did not.
C3_DuplicateByOn ==
  /\ call.fn = "on" /\ call.res = "ok"
  /\ cur.kind = "gate" /\ HasDup(cur.qubits) /\ ~HasDup(call.recv.qubits)

RECURSIVE Involutive(_)
\* c.H.H == c for the operation and for every operation below it
Involutive(op) ==
  /\ OpH(op).ok /\ OpH(OpH(op).val).ok
  /\ OpEq(OpH(OpH(op).val).val, op)
  /\ \A i \in DOMAIN op.elements : Involutive(op.elements[i])

\* C10: QuantumComposite.H returns a composite of the same type whose
\* children are the adjoints of the original children in reversed order and
\* whose qubits and addrs are those of the original; the adjoint of the
\* adjoint of a composite whose children satisfy c.H.H == c equals the
\* composite.
C10_Adjoint ==
  (call.fn = "H" /\ call.recv.kind = "comp") =>
    LET n == Len(call.recv.elements)
    IN /\ call.res = "ok"
       /\ cur.kind = "comp" /\ cur.name = call.recv.name
       /\ cur.qubits = call.recv.qubits /\ cur.addrs = call.recv.addrs
       /\ Len(cur.elements) = n
       /\ \A i \in 1..n :
            cur.elements[i] = OpH(call.recv.elements[n + 1 - i]).val
       /\ (call.inp.of.kind = "comp"
             /\ \A i \in DOMAIN call.inp.of.elements :
                  Involutive(call.inp.of.elements[i]))
            => OpEq(cur, call.inp.of)

\* C10 witness: the adjoint of the adjoint of a composite with two different
\* children and widened qubits.
C10_Witness ==
  /\ phase = "HH" /\ call.fn = "H" /\ call.inp.of.kind = "comp"
  /\ Len(cur.elements) = 2 /\ cur.elements[1] # cur.elements[2]
  /\ Range(cur.qubits) # ChildQubits(cur.elements)
  /\ OpEq(cur, call.inp.of)

(***************************************************************************)
(* Type definitions (operations.py): the __init_subclass__ hooks that run  *)
(* at a class statement, and the registries they fill.                     *)
(***************************************************************************)
\* cv_sym_operator = None
NoMatrix == <<>>

\* A symbolic matrix is a list of rows; an entry is a number, or a token
\* above 1 standing for an expression in the parameters.
Zeros(k) == [j \in 1..k |-> 0]

\* sym.eye(k)
Eye(k) == [i \in 1..k |-> [j \in 1..k |-> IF i = j THEN 1 ELSE 0]]

\* A block diagonal with the blocks in the other order.
Diag_swapped(A, B) ==
  [i \in 1..Len(B) |-> B[i] \o Zeros(Len(A))]
    \o [i \in 1..Len(A) |-> Zeros(Len(B)) \o A[i]]

\* sym.diag(A, B)
Diag(A, B) ==
  [i \in 1..Len(A) |-> A[i] \o Zeros(Len(B))]
    \o [i \in 1..Len(B) |-> Zeros(Len(A)) \o B[i]]

\* A type: its name and its class variables.  complete says that the
\* class statement ended without an exception.
MkClass(name, ctrl, params, qubit_nb, sym, structure, hermitian, target, doc, complete) ==
  [kind |-> "class", name |-> name, ctrl |-> ctrl, cv_params |-> params,
   cv_qubit_nb |-> qubit_nb, cv_sym_operator |-> sym,
   cv_operator_structure |-> structure, cv_hermitian |-> hermitian,
   cv_target |-> target, doc |-> doc, complete |-> complete]

\* One annotated argument of a constructor.
Ann(name, type) == [name |-> name, type |-> type]

\* A class statement: the name, whether the base is QuantumStdCtrlGate, the
\* annotations of __init__, the class variables its body sets, whether it
\* has a docstring and whether it leaves a method abstract.
MkStatement(name, ctrl, anns, sym, structure, hermitian, target, doc, abstract) ==
  [name |-> name, ctrl |-> ctrl, anns |-> anns, sym |-> sym,
   structure |-> structure, hermitian |-> hermitian, target |-> target,
   doc |-> doc, abstract |-> abstract]

\* The Variable-annotated names, in order.
AnnParams(anns) ==
  LET vs == SelectSeq(anns, LAMBDA a : a.type = "Variable")
  IN [i \in DOMAIN vs |-> vs[i].name]

\* The number of Qubit-annotated arguments.
AnnQubitNb(anns) == Cardinality({i \in DOMAIN anns : anns[i].type = "Qubit"})

\* cls.__name__.startswith("Quantum")
StartsWithQuantum(name) == name \in {"QuantumStdGate", "QuantumStdCtrlGate"}

\* collection[cls.name] = cls
Register(reg, cls) ==
  [n \in DOMAIN reg \cup {cls.name} |-> IF n = cls.name THEN cls ELSE reg[n]]

\* The embedding of a target's operator structure behind controls.
CtrlStructure(structure) == IF structure = "swap" THEN "permutation" ELSE structure

\* QuantumStdGate.__init_subclass__ (after the registration of
\* QuantumOperation.__init_subclass__): the class as the hook leaves it, and
\* the exception it raised, if any.
StdGate_init_subclass(st) ==
  LET early == StartsWithQuantum(st.name)
      cls == MkClass(st.name, st.ctrl,
                     IF early THEN <<>> ELSE AnnParams(st.anns),
                     IF early THEN 0 ELSE AnnQubitNb(st.anns),
                     st.sym, st.structure, st.hermitian, st.target, st.doc, FALSE)
  IN IF ~early /\ st.sym # NoMatrix /\ ~st.doc
     THEN [ok |-> FALSE, err |-> "AttributeError", cls |-> cls]
     ELSE [ok |-> TRUE, err |-> "", cls |-> cls]

\* QuantumStdCtrlGate.__init_subclass__
StdCtrlGate_init_subclass(st) ==
  LET r == StdGate_init_subclass(st)
      cls == r.cls
      target == cls.cv_target
      k == 2 ^ cls.cv_qubit_nb - 2 ^ target.cv_qubit_nb
      done == [cls EXCEPT
                 !.cv_sym_operator = Diag(Eye(k), target.cv_sym_operator),
                 !.cv_operator_structure = CtrlStructure(target.cv_operator_structure),
                 !.cv_hermitian = target.cv_hermitian]
  IN IF ~r.ok THEN r
     ELSE IF target.kind # "class" THEN [r EXCEPT !.ok = FALSE, !.err = "AttributeError"]
     ELSE IF target.cv_params # cls.cv_params
     THEN [r EXCEPT !.ok = FALSE, !.err = "AssertionError"]
     ELSE IF k < 0 THEN [r EXCEPT !.ok = FALSE, !.err = "ValueError"]
     ELSE IF ~cls.doc
     THEN [ok |-> FALSE, err |-> "AttributeError", cls |-> done]
     ELSE [ok |-> TRUE, err |-> "", cls |-> done]

\* control_qubit_nb
ControlQubitNb(cls) == cls.cv_qubit_nb - cls.cv_target.cv_qubit_nb

\* The class statements of plain standard gates.
XOperator == <<<<0, 1>>, <<1, 0>>>>

StdStatements ==
  { MkStatement("X", FALSE, <<Ann("q0", "Qubit")>>, XOperator,
                "permutation", TRUE, NoObj, TRUE, FALSE),
    MkStatement("X", FALSE, <<Ann("q0", "Qubit")>>, XOperator,
                "permutation", TRUE, NoObj, FALSE, FALSE),
    MkStatement("SWAP", FALSE, <<Ann("q0", "Qubit"), Ann("q1", "Qubit")>>,
                <<<<1, 0, 0, 0>>, <<0, 0, 1, 0>>, <<0, 1, 0, 0>>, <<0, 0, 0, 1>>>>,
                "swap", TRUE, NoObj, TRUE, FALSE),
    MkStatement("RX", FALSE, <<Ann("theta", "Variable"), Ann("q0", "Qubit")>>,
                <<<<7, 8>>, <<8, 7>>>>,
                "unstructured", FALSE, NoObj, TRUE, FALSE),
    MkStatement("QuantumStdCtrlGate", FALSE, <<Ann("args_qubits", "Union")>>,
                NoMatrix, "unstructured", FALSE, NoObj, TRUE, TRUE) }

\* The constructor annotations of a controlled gate: an optional parameter,
\* then up to NQubits + 1 qubits.
CtrlAnnotations ==
  { (IF p THEN <<Ann("theta", "Variable")>> ELSE <<>>)
      \o [i \in 1..k |-> Ann("q", "Qubit")]
    : p \in BOOLEAN, k \in 0..(NQubits + 1) }

\* The types a class body can name as its cv_target: the standard gates
\* whose class statement completed, plain ones or controlled gates over a
\* plain one.
Targets ==
  {STDGATES[n] : n \in {n \in DOMAIN STDGATES :
                          /\ STDGATES[n].complete
                          /\ STDGATES[n].ctrl => ~STDGATES[n].cv_target.ctrl}}

\* What the record of a class statement keeps of the type that held the
\* name before it: whether the statement put another type in its place.
\* A class statement makes a new class object each time it runs, so every
\* statement that registers its type replaces the one held before, also
\* when the two statements are the same.
Displaced(old, registered) ==
  [kind |-> "class", name |-> old.name, replaced |-> registered]

\* The class statement runs its hooks; the class object registered by
\* QuantumOperation.__init_subclass__ is the one the later hooks update.
\* The call records the type that OPERATIONS held under the name before.
ClassStatement(st, collections, r) ==
  LET cls == [r.cls EXCEPT !.complete = r.ok]
      in(c) == ~st.abstract /\ c \in collections
  IN /\ OPERATIONS' = IF in("OPERATIONS") THEN Register(OPERATIONS, cls) ELSE OPERATIONS
     /\ GATES' = IF in("GATES") THEN Register(GATES, cls) ELSE GATES
     /\ STDGATES' = IF in("STDGATES") THEN Register(STDGATES, cls) ELSE STDGATES
     /\ STDCTRLGATES' =
          IF in("STDCTRLGATES") THEN Register(STDCTRLGATES, cls) ELSE STDCTRLGATES
     /\ call' = MkCall("class",
                        IF st.name \in DOMAIN OPERATIONS
                        THEN Displaced(OPERATIONS[st.name], in("OPERATIONS")) ELSE NoObj,
                        st, IF r.ok THEN "ok" ELSE r.err)
     /\ cur' = IF r.ok THEN cls ELSE cur
     /\ phase' = "types"

InitTypes ==
  /\ cur = NoObj
  /\ call = NoCall
  /\ phase = "types"
  /\ OPERATIONS = NoTypes /\ GATES = NoTypes
  /\ STDGATES = NoTypes /\ STDCTRLGATES = NoTypes

DefineStdGate ==
  \E st \in StdStatements :
    ClassStatement(st, {"OPERATIONS", "GATES", "STDGATES"}, StdGate_init_subclass(st))

DefineStdCtrlGate ==
  \E anns \in CtrlAnnotations, target \in Targets \cup {NoObj}, doc \in BOOLEAN :
    LET st == MkStatement("CtrlGate", TRUE, anns, NoMatrix, "unstructured", FALSE,
                          target, doc, FALSE)
    IN ClassStatement(st, {"OPERATIONS", "GATES", "STDGATES", "STDCTRLGATES"},
                      StdCtrlGate_init_subclass(st))

NextTypes ==
  \/ DefineStdGate
  \/ DefineStdCtrlGate

SpecTypes == InitTypes /\ [][NextTypes]_vars

(***************************************************************************)
(* Properties of the type definitions (SpecTypes).                         *)
(***************************************************************************)
\* The operator of cls is block diagonal: the identity of size
\* 2^n - 2^m, then the operator of its target.
BlockDiagonal(cls) ==
  LET d == 2 ^ cls.cv_qubit_nb
      k == d - 2 ^ cls.cv_target.cv_qubit_nb
      M == cls.cv_sym_operator
      T == cls.cv_target.cv_sym_operator
  IN /\ k >= 0
     /\ Len(M) = d
     /\ \A i \in 1..d :
          /\ Len(M[i]) = d
          /\ \A j \in 1..d :
               M[i][j] = IF i <= k /\ j <= k THEN (IF i = j THEN 1 ELSE 0)
                         ELSE IF i > k /\ j > k THEN T[i - k][j - k]
                         ELSE 0

\* C8: the symbolic operator of every controlled gate type whose class
\* statement completed, with n qubits over a target with m <= n qubits, is
\* the 2^n x 2^n block diagonal of the identity of size 2^n - 2^m and the
\* target's operator; a 2-qubit controlled gate over X has one control
\* qubit, the 2x2 identity as its control=0 block and X's operator as its
\* control=1 block.
C8_CtrlOperator ==
  \A name \in DOMAIN STDCTRLGATES :
    LET cls == STDCTRLGATES[name]
        M == cls.cv_sym_operator
    IN cls.complete =>
         /\ cls.cv_target.cv_qubit_nb <= cls.cv_qubit_nb
         /\ BlockDiagonal(cls)
         /\ (cls.cv_qubit_nb = 2 /\ cls.cv_target.name = "X") =>
              /\ ControlQubitNb(cls) = 1
              /\ <<SubSeq(M[1], 1, 2), SubSeq(M[2], 1, 2)>> = <<<<1, 0>>, <<0, 1>>>>
              /\ <<SubSeq(M[3], 3, 4), SubSeq(M[4], 3, 4)>> = <<<<0, 1>>, <<1, 0>>>>
              /\ <<SubSeq(M[1], 3, 4), SubSeq(M[2], 3, 4)>> = <<<<0, 0>>, <<0, 0>>>>
              /\ <<SubSeq(M[3], 1, 2), SubSeq(M[4], 1, 2)>> = <<<<0, 0>>, <<0, 0>>>>

\* C8 witness: a completed 2-qubit controlled gate over X is registered.
C8_Witness ==
  /\ call.fn = "class" /\ call.res = "ok" /\ cur.ctrl
  /\ "CtrlGate" \in DOMAIN STDCTRLGATES
  /\ STDCTRLGATES["CtrlGate"] = cur
  /\ cur.cv_qubit_nb = 2 /\ cur.cv_target.name = "X"

(***************************************************************************)
(* Gates with numeric operators (operations.py: QuantumGate).  An operator *)
(* on N qubits is a list of 2^N rows of 2^N integers; row r+1, column c+1  *)
(* holds the entry of the basis states r and c, whose bit of weight        *)
(* 2^(N-1-k) is the value of the k-th qubit of the gate's qubit tuple.     *)
(***************************************************************************)
RECURSIVE SumSeq(_)
SumSeq(s) == IF s = <<>> THEN 0 ELSE Head(s) + SumSeq(Tail(s))

\* The d x d array of the entries entry[r][c], held as a list of rows.
Array(d, entry) == [r \in 1..d |-> [c \in 1..d |-> entry[r][c]] \o <<>>] \o <<>>

\* The value of axis k (counted from 0) of the index i of N axes.
Bit(i, k, N) == (i \div (2 ^ (N - 1 - k))) % 2

\* xs.index(q), counted from 0
IndexIn(xs, q) == (CHOOSE i \in DOMAIN xs : xs[i] = q /\ \A j \in 1..(i - 1) : xs[j] # q) - 1

\* The index made of the axes `indices` of the index i.
SubIndex(i, indices, N) ==
  SumSeq([j \in DOMAIN indices |->
            Bit(i, indices[j], N) * 2 ^ (Len(indices) - j)])

\* The index i with its axes `indices` set to the axes of s.
PutIndex(i, indices, s, N) ==
  SumSeq([k \in 1..N |->
            (IF \E j \in DOMAIN indices : indices[j] = k - 1
             THEN Bit(s, IndexIn(indices, k - 1), Len(indices))
             ELSE Bit(i, k - 1, N)) * 2 ^ (N - k)])

\* tensormul(tensor0, tensor1, indices): the operator tensor0 applied to the
\* row axes `indices` of the operator tensor1 on N qubits.
TensorMul(tensor0, tensor1, indices, N) ==
  LET d == 2 ^ N
      K == Len(indices)
      sub == [r \in 1..d |-> SubIndex(r - 1, indices, N) + 1] \o <<>>
      put == Array(d, [r \in 1..d |-> [s \in 1..d |->
                 IF s <= 2 ^ K THEN PutIndex(r - 1, indices, s - 1, N) + 1 ELSE 0]])
      t0 == tensor0
      t1 == tensor1
  IN Array(d, [r \in 1..d |-> [c \in 1..d |->
       SumSeq([s \in 1..(2 ^ K) |-> t0[sub[r]][s] * t1[put[r][s]][c]])]])

\* Unitary(tensor, qubits)
Unitary(tensor, qubits) ==
  [kind |-> "gate", name |-> "Unitary", qubits |-> qubits, addrs |-> <<>>,
   args |-> <<>>, elements |-> <<>>, tensor |-> tensor]

\* Identity(qubits)
Identity(qubits) == MkOp("gate", "I", qubits, <<>>, <<>>, <<>>)

\* gate.operator: the tensor of a Unitary, the identity of an Identity, and
\* the matrix of a standard gate.
Operator(g) ==
  CASE g.name = "Unitary" -> g.tensor
    [] g.name = "I"       -> Eye(2 ^ Len(g.qubits))
    [] g.name = "X"       -> <<<<0, 1>>, <<1, 0>>>>
    [] g.name = "CNOT"    -> <<<<1, 0, 0, 0>>, <<0, 1, 0, 0>>,
                               <<0, 0, 0, 1>>, <<0, 0, 1, 0>>>>

\* self @ other, when every qubit of self is one of other
MatmulCore(self, other) ==
  LET indices == [i \in DOMAIN self.qubits |-> IndexIn(other.qubits, self.qubits[i])]
  IN Unitary(TensorMul(Operator(self), Operator(other), indices, Len(other.qubits)),
             other.qubits)

\* tuple(set(self.qubits) - set(other.qubits)): small integers iterate in
\* increasing order
ExtraQubits(self, other) == SortedSeq(Range(self.qubits) \ Range(other.qubits))

\* A padding that puts the missing qubits first.
Padding_prepend(other, extra) == Identity(extra \o other.qubits)

\* Identity(tuple(other.qubits) + extra_qubits)
Padding(other, extra) == Identity(other.qubits \o extra)

RECURSIVE Matmul(_, _)
\* QuantumGate.__matmul__
Matmul(self, other) ==
  IF other.kind # "gate" THEN Fail("NotImplementedError")
  ELSE LET extra == ExtraQubits(self, other)
       IN IF extra # <<>>
          THEN Matmul(self, Matmul(other, Padding(other, extra)).val)
          ELSE Ok(MatmulCore(self, other))

RECURSIVE Paddings(_, _)
\* The number of times that self @ other, for gates, takes the branch that
\* pads (the calls other @ Identity(...) included).
Paddings(self, other) ==
  LET extra == ExtraQubits(self, other)
  IN IF extra # <<>>
     THEN 1 + Paddings(other, Padding(other, extra))
            + Paddings(self, Matmul(other, Padding(other, extra)).val)
     ELSE 0

\* A fold step that composes the accumulator onto the child.
AsGateStep_swapped(elem, gate) == Matmul(gate, elem).val

\* gate = elem.asgate() @ gate
AsGateStep(elem, gate) == Matmul(elem, gate).val

RECURSIVE AsGate(_)
RECURSIVE AsGateFold(_, _)
\* for elem in self: gate = elem.asgate() @ gate
AsGateFold(elements, gate) ==
  IF elements = <<>> THEN gate
  ELSE AsGateFold(Tail(elements), AsGateStep(AsGate(Head(elements)), gate))

\* QuantumGate.asgate (self) and QuantumComposite.asgate
AsGate(op) ==
  IF op.kind = "gate" THEN op
  ELSE AsGateFold(op.elements, Identity(op.qubits))

\* A transposition that puts axis k of the operator at axis perm[k] of the result.
PermIndex_inverse(i, perm, N) ==
  SumSeq([k \in 1..N |-> Bit(i, perm[k], N) * 2 ^ (N - k)])

\* The row (column) index that gate.permute reads for the index i of the
\* result: axis k of the result is axis perm[k] of the operator.
PermIndex(i, perm, N) ==
  SumSeq([k \in 1..N |-> Bit(i, k - 1, N) * 2 ^ (N - 1 - perm[k])])

\* np.transpose(np.reshape(operator, [2] * 2N), perm + [N + i for i in perm])
PermuteTensor(tensor, perm, N) ==
  LET from == [i \in 1..(2 ^ N) |-> PermIndex(i - 1, perm, N) + 1] \o <<>>
  IN Array(2 ^ N, [r \in 1..(2 ^ N) |-> [c \in 1..(2 ^ N) |-> tensor[from[r]][from[c]]]])

\* QuantumGate.permute(qubits)
Permute(g, qubits) ==
  IF g.qubits = qubits THEN Ok(g)
  ELSE IF ~(Range(qubits) \subseteq Range(g.qubits)) THEN Fail("ValueError")
  ELSE IF Len(qubits) # Len(g.qubits) \/ HasDup(qubits) THEN Fail("ValueError")
  ELSE LET perm == [k \in DOMAIN qubits |-> IndexIn(g.qubits, qubits[k])]
       IN Ok(Unitary(PermuteTensor(Operator(g), perm, Len(g.qubits)), qubits))

(***************************************************************************)
(* The run of the gate operations: a gate or a circuit of gates is built,  *)
(* then a gate is permuted (up to twice) or composed with another gate,    *)
(* and a circuit is folded into a gate.                                    *)
(***************************************************************************)
GQubits == 0 .. (MaxGateQubits - 1)

\* The qubit tuples without a repeated qubit.
InjTuples == {t \in SeqsUpTo(GQubits, MaxGateQubits) : t # <<>> /\ ~HasDup(t)}

\* An operator on N qubits whose entries all differ.
IndexTensor(N) == [r \in 1..(2 ^ N) |-> [c \in 1..(2 ^ N) |-> (r - 1) * (2 ^ N) + c]]

\* The tuples of all the qubits in a rotated order.
Rotations ==
  {[i \in 1..MaxGateQubits |-> (i - 1 + k) % MaxGateQubits] : k \in GQubits}
    \cup {<<1, 0>> \o [i \in 1..(MaxGateQubits - 2) |-> i + 1]}

SmallGates ==
  {StdGateInit("X", <<q>>) : q \in GQubits}
    \cup {Unitary(IndexTensor(Len(<<q>>)), <<q>>) : q \in GQubits}
    \cup {Identity(<<q>>) : q \in GQubits}
    \cup {StdGateInit("CNOT", t) : t \in {u \in InjTuples : Len(u) = Len(<<0, 1>>)}}

\* The gates that are permuted and composed: the small gates, and an
\* identity and a gate of distinct entries on every set of qubits.
GateInputs ==
  SmallGates \cup {Identity(SortedSeq(S)) : S \in (SUBSET GQubits) \ {{}}}
             \cup {Unitary(IndexTensor(Cardinality(S)), SortedSeq(S)) :
                      S \in (SUBSET GQubits) \ {{}}}

NestedCircuits ==
  {CompositeInit("Circuit", <<StdGateInit("X", <<0>>), Unitary(IndexTensor(Len(<<0>>)), <<0>>)>>,
                 NoneArg, NoneArg).val,
   CompositeInit("Circuit", <<StdGateInit("CNOT", <<0, 1>>)>>, Some(<<1, 0>>), NoneArg).val}

\* The children of the circuits that are folded: lists of up to two gates
\* or circuits, and lists of single-qubit identities on distinct qubits.
GateElemLists ==
  UpToTwo(SmallGates \cup NestedCircuits)
    \cup {[i \in 1..n |-> Identity(<<i - 1>>)] : n \in 1..MaxGateQubits}

MatmulOperands ==
  {StdGateInit("X", <<0>>), StdGateInit("CNOT", <<1, 0>>), Identity(<<0, 1>>),
   Unitary(IndexTensor(Len(<<1, 0>>)), <<1, 0>>)} \cup NestedCircuits

InitGate ==
  /\ cur = NoObj
  /\ call = NoCall
  /\ phase = "start"
  /\ OPERATIONS = NoTypes /\ GATES = NoTypes
  /\ STDGATES = NoTypes /\ STDCTRLGATES = NoTypes

NewGate ==
  /\ phase = "start"
  /\ \E g \in GateInputs :
       Returned("Gate", [name |-> g.name, qubits |-> g.qubits], Ok(g), "built")

NewCircuit ==
  /\ phase = "start"
  /\ \E es \in GateElemLists, q \in {NoneArg} \cup {Some(t) : t \in Rotations} :
       Returned("Composite", [elements |-> es, qubits |-> q, addrs |-> NoneArg],
                CompositeInit("Circuit", es, q, NoneArg), "built")

CallPermute ==
  /\ phase \in {"built", "permuted"}
  /\ cur.kind = "gate"
  /\ \E qs \in {t \in InjTuples : Range(t) = Range(cur.qubits)} \cup {<<0>>, <<0, 0>>} :
       Returned("permute",
                [qubits |-> qs,
                 of |-> IF call.fn = "permute" /\ call.res = "ok" THEN call.recv ELSE NoObj],
                Permute(cur, qs),
                IF phase = "built" THEN "permuted" ELSE "restored")

CallMatmul ==
  /\ phase = "built"
  /\ cur.kind = "gate"
  /\ \E other \in MatmulOperands :
       Returned("matmul", [other |-> other], Matmul(cur, other), "composed")

CallAsGate ==
  /\ phase = "built"
  /\ Returned("asgate", <<>>, Ok(AsGate(cur)), "folded")

NextGate ==
  \/ NewGate
  \/ NewCircuit
  \/ CallPermute
  \/ CallMatmul
  \/ CallAsGate

SpecGate == InitGate /\ [][NextGate]_vars

(***************************************************************************)
(* Properties of the gate operations                                       *)
(***************************************************************************)
MatMul(A, B) ==
  LET a == A
      b == B
  IN Array(Len(a), [r \in DOMAIN a |-> [c \in DOMAIN a |->
       SumSeq([k \in DOMAIN b |-> a[r][k] * b[k][c]])]])

\* The operator of the gate g as an operator on the qubits qs: g acts on its
\* own qubits and leaves the others as they are.
Embed(g, qs) ==
  LET N == Len(qs)
      pos == [i \in DOMAIN g.qubits |-> IndexIn(qs, g.qubits[i])]
      others == SortedSeq({k \in 0..(N - 1) : \A i \in DOMAIN pos : pos[i] # k})
      own == [r \in 1..(2 ^ N) |-> SubIndex(r - 1, pos, N) + 1] \o <<>>
      rest == [r \in 1..(2 ^ N) |-> SubIndex(r - 1, others, N)] \o <<>>
      op == Operator(g)
  IN Array(2 ^ N, [r \in 1..(2 ^ N) |-> [c \in 1..(2 ^ N) |->
       IF rest[r] = rest[c] THEN op[own[r]][own[c]] ELSE 0]])

RECURSIVE ProductOf(_, _)
\* The matrix product en * ... * e1 of the children's gates on the qubits qs.
ProductOf(elements, qs) ==
  IF elements = <<>> THEN Eye(2 ^ Len(qs))
  ELSE MatMul(Embed(AsGate(elements[Len(elements)]), qs),
              ProductOf(SubSeq(elements, 1, Len(elements) - 1), qs))

\* n single-qubit identity gates on n distinct qubits
IdentitiesOnly(c) ==
  /\ c.elements # <<>>
  /\ \A i \in DOMAIN c.elements :
       c.elements[i].name = "I" /\ Len(c.elements[i].qubits) = 1
  /\ ~HasDup(QubitList(c.elements))
  /\ Len(c.qubits) = Len(c.elements)

\* C4: asgate() of a composite whose children are gates or composites of
\* gates returns a gate on the composite's qubits whose operator is the
\* product en * ... * e1 of the children's gates, each acting on the
\* composite's qubits (the first child is applied first); n single-qubit
\* identities on n distinct qubits fold to the identity of dimension 2^n.
C4_AsGateFold ==
  (call.fn = "asgate" /\ call.recv.kind = "comp") =>
     /\ call.res = "ok"
     /\ cur.kind = "gate"
     /\ cur.qubits = call.recv.qubits
     /\ Operator(cur) = ProductOf(call.recv.elements, call.recv.qubits)
     /\ IdentitiesOnly(call.recv) =>
          Operator(cur) = Eye(2 ^ Len(call.recv.elements))

\* A circuit of two children whose order matters has been folded, and so
\* has a circuit of as many identities as there are qubits.
C4_Witness ==
  /\ call.fn = "asgate" /\ call.recv.kind = "comp" /\ call.res = "ok"
  /\ Len(call.recv.elements) = 2
  /\ Len(call.recv.qubits) = MaxGateQubits
  /\ call.recv.elements[1].kind = "comp"
  /\ Operator(cur) # ProductOf(Reverse(call.recv.elements), call.recv.qubits)

C4_WitnessIdentities ==
  /\ call.fn = "asgate" /\ call.res = "ok"
  /\ call.recv.kind = "comp" /\ IdentitiesOnly(call.recv)
  /\ Len(call.recv.elements) = MaxGateQubits

IsPermutation(p, q) == Len(p) = Len(q) /\ Range(p) = Range(q) /\ ~HasDup(p)

\* The basis index, in the qubit order qs, of the assignment x of a bit to
\* each qubit.
LabelledIndex(x, qs) ==
  SumSeq([k \in DOMAIN qs |-> x[qs[k]] * 2 ^ (Len(qs) - k)])

\* a and b have the same entry for every pair of assignments of bits to
\* the qubits.
SameLabelledEntries(a, b) ==
  LET A == Operator(a)
      B == Operator(b)
  IN \A x, y \in [Range(a.qubits) -> {0, 1}] :
       A[LabelledIndex(x, a.qubits) + 1][LabelledIndex(y, a.qubits) + 1]
         = B[LabelledIndex(x, b.qubits) + 1][LabelledIndex(y, b.qubits) + 1]

\* C9: g.permute(p), p a permutation of g.qubits, returns a gate on the
\* qubits p whose entries are those of g with the bits of the row and of the
\* column index rearranged by the same permutation; p = g.qubits returns g
\* itself; permuting back to the original order restores the operator.
C9_Permute ==
  (call.fn = "permute" /\ IsPermutation(call.inp.qubits, call.recv.qubits)) =>
     /\ call.res = "ok"
     /\ cur.kind = "gate"
     /\ cur.qubits = call.inp.qubits
     /\ SameLabelledEntries(cur, call.recv)
     /\ (call.inp.qubits = call.recv.qubits) => (cur = call.recv)
     /\ (call.inp.of # NoObj /\ call.inp.qubits = call.inp.of.qubits) =>
          Operator(cur) = Operator(call.inp.of)

\* A gate on three qubits has been permuted cyclically and back again.
C9_Witness ==
  /\ call.fn = "permute" /\ call.res = "ok"
  /\ call.inp.of # NoObj
  /\ call.inp.qubits = call.inp.of.qubits
  /\ Len(cur.qubits) = 3
  /\ \A k \in DOMAIN cur.qubits : call.recv.qubits[k] # cur.qubits[k]
  /\ Operator(call.recv) # Operator(cur)

(***************************************************************************)
(* States and their classical memory (stdops.py: Measure, Reset, Store,    *)
(* If, Barrier).  A state holds an integer tensor (a vector for a ket, a   *)
(* matrix for a density) and a positive factor num/den: the amplitudes of  *)
(* a ket are tensor * sqrt(num/den), the entries of a density are          *)
(* tensor * num/den.  nan says that the entries are not numbers.           *)
(***************************************************************************)
MkState(kind, qubits, tensor, num, den, memory, nan) ==
  [kind |-> kind, qubits |-> qubits, tensor |-> tensor, num |-> num, den |-> den,
   memory |-> memory, nan |-> nan]

NoMemory == [a \in {} |-> 0]

\* state.store({key: value})
StoreIn(st, key, value) ==
  [st EXCEPT !.memory = [a \in DOMAIN st.memory \cup {key} |->
                           IF a = key THEN value ELSE st.memory[a]]]

\* The sum of the squares of a ket's tensor and the trace of a density's.
Mass(st) ==
  IF st.kind = "ket" THEN SumSeq([i \in DOMAIN st.tensor |-> st.tensor[i] * st.tensor[i]])
  ELSE SumSeq([i \in DOMAIN st.tensor |-> st.tensor[i][i]])

\* state.norm() is Mass(st) * num / den.
\* k / RGrid < state.norm(); nothing is less than nan
LessThanNorm(k, st) == ~st.nan /\ k * st.den < Mass(st) * st.num * RGrid

\* A state whose entries are all nan.
NanState(st) ==
  [st EXCEPT !.tensor = IF st.kind = "ket" THEN [i \in DOMAIN st.tensor |-> 0]
                        ELSE [i \in DOMAIN st.tensor |-> [j \in DOMAIN st.tensor |-> 0]],
             !.num = 0, !.den = 1, !.nan = TRUE]

\* state.normalize(): the division by a zero norm gives nan entries
Normalize(st) ==
  IF st.nan \/ Mass(st) = 0 THEN NanState(st)
  ELSE [st EXCEPT !.num = 1, !.den = Mass(st)]

Transpose(A) == Array(Len(A), [r \in DOMAIN A |-> [c \in DOMAIN A |-> A[c][r]]])

\* tensormul(M, vector, indices) for a single-qubit M
ApplyVec(M, vec, pos, N) ==
  LET v == vec
  IN [i \in 1..(2 ^ N) |->
        SumSeq([s \in 1..Len(M) |->
                  M[Bit(i - 1, pos, N) + 1][s] * v[PutIndex(i - 1, <<pos>>, s - 1, N) + 1]])]
       \o <<>>

\* M rho M^T for a single-qubit real M
ApplyRho(M, rho, pos, N) ==
  Transpose(TensorMul(M, Transpose(TensorMul(M, rho, <<pos>>, N)), <<pos>>, N))

\* gate.run(ket) and gate.evolve(rho) of a single-qubit gate of tensor M on
\* the qubit q: ket.qubits.index(q) fails for a qubit the state has not.
ApplyGate(M, q, st) ==
  IF q \notin Range(st.qubits) THEN Fail("ValueError")
  ELSE LET pos == IndexIn(st.qubits, q)
           N == Len(st.qubits)
       IN Ok([st EXCEPT !.tensor = IF st.kind = "ket" THEN ApplyVec(M, @, pos, N)
                                   ELSE ApplyRho(M, @, pos, N)])

\* Project0.tensor, Project1.tensor, the tensor of Reset._gate and of X
Project0Tensor == <<<<1, 0>>, <<0, 0>>>>
Project1Tensor == <<<<0, 0>>, <<0, 1>>>>
ResetTensor == <<<<1, 1>>, <<0, 0>>>>
XTensor == <<<<0, 1>>, <<1, 0>>>>

\* Measure(qubit, cbit): cbit is <<>> when it is not given
MeasureInit(qubit, cbit) ==
  MkOp("op", "Measure", <<qubit>>, <<>>, IF cbit = <<>> THEN <<qubit>> ELSE cbit, <<>>)

\* Reset(*qubits)
ResetInit(qubits) == MkOp("op", "Reset", qubits, <<>>, <<>>, <<>>)

\* Barrier(*qubits)
BarrierInit(qubits) == MkOp("op", "Barrier", qubits, <<>>, <<>>, <<>>)

\* Store(key, value)
StoreInit(key, value) == MkOp("op", "Store", <<>>, <<>>, <<key, value>>, <<>>)

\* If(elem, key, value)
IfInit(elem, key, value) == MkOp("op", "If", elem.qubits, <<>>, <<key, value>>, <<elem>>)

\* A comparison that also takes a sample equal to the probability.
Roll_inclusive(k, st) == ~st.nan /\ k * st.den <= Mass(st) * st.num * RGrid

\* np.random.random() < prob_zero, for the sample k / RGrid and the state
\* projected on zero
Roll(k, st) == LessThanNorm(k, st)

\* Measure.run and Measure.evolve with the sample k / RGrid
MeasureRun(op, st, k) ==
  LET p0 == ApplyGate(Project0Tensor, op.qubits[1], st)
      p1 == ApplyGate(Project1Tensor, op.qubits[1], st)
  IN IF ~p0.ok THEN p0
     ELSE IF Roll(k, p0.val) THEN Ok(StoreIn(Normalize(p0.val), op.args[1], 0))
     ELSE Ok(StoreIn(Normalize(p1.val), op.args[1], 1))

RECURSIVE ResetFold(_, _)
\* for q in qubits: ket = self._gate.on(q).run(ket)
ResetFold(qubits, r) ==
  IF qubits = <<>> \/ ~r.ok THEN r
  ELSE ResetFold(Tail(qubits), ApplyGate(ResetTensor, Head(qubits), r.val))

\* Reset.run
ResetRun(op, ket) ==
  LET qubits == IF op.qubits # <<>> THEN op.qubits ELSE ket.qubits
      r == ResetFold(qubits, Ok(ket))
  IN IF r.ok THEN Ok(Normalize(r.val)) ELSE r

\* A test of the memory entry alone.
IfCondition_truthy(memory, key, value) == memory[key] # 0

\* ket.memory[self.key] == self.value
IfCondition(memory, key, value) == memory[key] = value

RECURSIVE Run(_, _, _)
\* op.run(ket) and op.evolve(rho), with the sample k / RGrid for the
\* measurements
Run(op, st, k) ==
  CASE op.name = "Measure" -> MeasureRun(op, st, k)
    [] op.name = "Reset" ->
         IF st.kind = "ket" THEN ResetRun(op, st) ELSE Fail("TypeError")
    [] op.name = "Barrier" -> Ok(st)
    [] op.name = "Store" -> Ok(StoreIn(st, op.args[1], op.args[2]))
    [] op.name = "X" -> ApplyGate(XTensor, op.qubits[1], st)
    [] op.name = "If" ->
         IF op.args[1] \notin DOMAIN st.memory THEN Fail("KeyError")
         ELSE IF IfCondition(st.memory, op.args[1], op.args[2])
              THEN Run(op.elements[1], st, k)
              ELSE Ok(st)

(***************************************************************************)
(* The run of an operation on a state                                      *)
(***************************************************************************)
Addrs == 0 .. NQubits

\* The vectors of 2^n entries with one or two entries 1 or -1.
KetVectors(n) ==
  {v \in [1..(2 ^ n) -> {-1, 0, 1}] :
     Cardinality({i \in 1..(2 ^ n) : v[i] # 0}) \in {1, 2}}

Memories ==
  {NoMemory} \cup {[a \in {b} |-> x] : b \in {0, NQubits}, x \in {0, 1}}

\* The normalized kets on the qubits 0 .. n-1.
Kets ==
  {Normalize(MkState("ket", [i \in 1..n |-> i - 1], v, 1, 1, m, FALSE)) :
     <<n, v, m>> \in {<<n, v, m>> \in (1..NQubits) \X (UNION {KetVectors(n) : n \in 1..NQubits}) \X Memories :
                       Len(v) = 2 ^ n}}

\* The densities on one qubit: of the kets, and the mixed state.
Densities ==
  {Normalize(MkState("density", <<0>>, [r \in 1..2 |-> [c \in 1..2 |-> v[r] * v[c]]], 1, 1, m, FALSE)) :
     v \in KetVectors(1), m \in Memories}
    \cup {Normalize(MkState("density", <<0>>, Eye(2), 1, 1, m, FALSE)) : m \in Memories}

Elements ==
  {MkOp("gate", "X", <<0>>, <<>>, <<>>, <<>>), StoreInit(NQubits, 1), ResetInit(<<0>>),
   BarrierInit(<<0>>), MeasureInit(0, <<>>)}

InitRun ==
  /\ cur = NoObj
  /\ call = NoCall
  /\ phase = "start"
  /\ OPERATIONS = NoTypes /\ GATES = NoTypes
  /\ STDGATES = NoTypes /\ STDCTRLGATES = NoTypes

NewState ==
  /\ phase = "start"
  /\ \E st \in Kets \cup Densities :
       Returned("State", [kind |-> st.kind], Ok(st), "ready")

\* run for a ket, evolve for a density
Method(st) == IF st.kind = "density" THEN "evolve" ELSE "run"

\* A state has been prepared and no operation has been called on it.
Prepared == phase = "ready" /\ call.fn = "State"

RunElement ==
  /\ Prepared
  /\ \E op \in Elements \ {MeasureInit(0, <<>>), ResetInit(<<0>>)} :
       Returned(Method(cur), [op |-> op, r |-> 0], Run(op, cur, 0), "ran")

RunReset ==
  /\ Prepared
  /\ \E qs \in UpToTwo(Qubits) :
       Returned(Method(cur), [op |-> ResetInit(qs), r |-> 0],
                Run(ResetInit(qs), cur, 0), "ran")

RunMeasure ==
  /\ Prepared
  /\ \E q \in Qubits, cbit \in {<<>>, <<NQubits>>}, k \in 0..(RGrid - 1) :
       Returned(Method(cur), [op |-> MeasureInit(q, cbit), r |-> k, cbit |-> cbit],
                Run(MeasureInit(q, cbit), cur, k), "ran")

RunIf ==
  /\ Prepared
  /\ \E elem \in Elements, key \in {0, NQubits}, value \in {0, 1}, k \in 0..(RGrid - 1) :
       /\ elem.name # "Measure" => k = 0
       /\ Returned(Method(cur), [op |-> IfInit(elem, key, value), r |-> k],
                    Run(IfInit(elem, key, value), cur, k), "ran")

NextRun ==
  \/ NewState
  \/ RunElement
  \/ RunReset
  \/ RunMeasure
  \/ RunIf

SpecRun == InitRun /\ [][NextRun]_vars

(***************************************************************************)
(* Properties of the runs                                                  *)
(***************************************************************************)
\* The state's entries are numbers and its norm is 1.
Normalized(st) == ~st.nan /\ Mass(st) * st.num = st.den

CalledOn(name) ==
  /\ call.fn \in {"run", "evolve"}
  /\ call.inp.op.name = name

\* The basis states of st in which the qubit q has the value b.
BasisWhere(st, q, b) ==
  {i \in DOMAIN st.tensor : Bit(i - 1, IndexIn(st.qubits, q), Len(st.qubits)) = b}

\* C5 (as stated): for every normalized ket, Reset(q1..qk).run (Reset().run
\* for every qubit of the ket) returns a normalized ket with no amplitude
\* on a basis state where a reset qubit is 1, and the same memory.
C5_ResetToZero ==
  (/\ CalledOn("Reset") /\ call.fn = "run"
   /\ Normalized(call.recv)
   /\ Range(call.inp.op.qubits) \subseteq Range(call.recv.qubits)) =>
     LET reset == IF call.inp.op.qubits = <<>> THEN call.recv.qubits
                  ELSE call.inp.op.qubits
     IN /\ call.res = "ok"
        /\ Normalized(cur)
        /\ cur.qubits = call.recv.qubits /\ cur.memory = call.recv.memory
        /\ \A q \in Range(reset) : \A i \in BasisWhere(cur, q, 1) : cur.tensor[i] = 0

\* Reset.run of a normalized ket has returned a ket of nan amplitudes.
C5_ResetGivesNan ==
  /\ CalledOn("Reset") /\ call.fn = "run"
  /\ Normalized(call.recv)
  /\ call.res = "ok"
  /\ cur.nan

\* C6: If(op, key, v).run / .evolve fails with KeyError and applies nothing
\* when key is not in the memory, returns exactly the input state when
\* memory[key] != v, and returns exactly op.run(state) (op.evolve(state))
\* when memory[key] == v.
C6_If ==
  CalledOn("If") =>
    LET st == call.recv
        key == call.inp.op.args[1]
        v == call.inp.op.args[2]
        r == Run(call.inp.op.elements[1], st, call.inp.r)
    IN /\ (key \notin DOMAIN st.memory) => (call.res = "KeyError" /\ cur = st)
       /\ (key \in DOMAIN st.memory /\ st.memory[key] # v) =>
            (call.res = "ok" /\ cur = st)
       /\ (key \in DOMAIN st.memory /\ st.memory[key] = v) =>
            (call.res = Outcome(r) /\ cur = IF r.ok THEN r.val ELSE st)

\* An If whose memory entry matches has applied its operation.
C6_Witness ==
  /\ CalledOn("If")
  /\ call.inp.op.args[1] \in DOMAIN call.recv.memory
  /\ call.recv.memory[call.inp.op.args[1]] = call.inp.op.args[2]
  /\ call.inp.op.args[2] = 0
  /\ call.res = "ok"
  /\ cur.tensor # call.recv.tensor

\* An If whose memory entry does not match has returned its input, one
\* whose key is missing has failed, and one has evolved a density.
C6_WitnessSkipped ==
  /\ CalledOn("If") /\ call.res = "ok" /\ cur = call.recv
  /\ call.recv.memory[call.inp.op.args[1]] # call.inp.op.args[2]
  /\ call.inp.op.elements[1].name = "X"

C6_WitnessMissing == CalledOn("If") /\ call.res = "KeyError"

C6_WitnessEvolve ==
  /\ CalledOn("If") /\ call.fn = "evolve" /\ call.res = "ok"
  /\ cur.tensor # call.recv.tensor

\* C7: Measure(qubit, cbit).run of a normalized ket with the sample r
\* stores one outcome at cbit (at the qubit when cbit is not given) and
\* changes no other entry: 0, with the ket projected on qubit = 0 and
\* normalized, when r is less than the probability of zero, else 1, with
\* the ket projected on qubit = 1 and normalized; a qubit in |0> gives 0.
C7_Measure ==
  (/\ CalledOn("Measure") /\ call.fn = "run"
   /\ Normalized(call.recv)
   /\ call.inp.op.qubits[1] \in Range(call.recv.qubits)) =>
     LET st == call.recv
         q == call.inp.op.qubits[1]
         addr == IF call.inp.cbit = <<>> THEN q ELSE call.inp.cbit[1]
         zero == SumSeq([i \in DOMAIN st.tensor |->
                           IF i \in BasisWhere(st, q, 0)
                           THEN st.tensor[i] * st.tensor[i] ELSE 0])
         out == IF call.inp.r * Mass(st) < zero * RGrid THEN 0 ELSE 1
     IN /\ call.res = "ok"
        /\ DOMAIN cur.memory = DOMAIN st.memory \cup {addr}
        /\ \A a \in DOMAIN st.memory \ {addr} : cur.memory[a] = st.memory[a]
        /\ cur.memory[addr] = out
        /\ cur.memory[addr] \in {0, 1}
        /\ cur.qubits = st.qubits
        /\ cur.tensor = [i \in DOMAIN st.tensor |->
                           IF i \in BasisWhere(st, q, out) THEN st.tensor[i] ELSE 0]
        /\ Normalized(cur)
        /\ (zero = Mass(st)) => (cur.memory[addr] = 0)

\* A qubit in a superposition has been measured as 1 into a given cbit.
C7_Witness ==
  /\ CalledOn("Measure") /\ call.fn = "run" /\ call.res = "ok"
  /\ Normalized(call.recv)
  /\ call.inp.cbit # <<>>
  /\ cur.memory[call.inp.cbit[1]] = 1
  /\ cur.tensor # call.recv.tensor
  /\ call.inp.r > 0

\* A qubit in |0> has been measured with every sample of the grid.
C7_WitnessZero ==
  /\ CalledOn("Measure") /\ call.fn = "run" /\ call.res = "ok"
  /\ call.inp.cbit = <<>>
  /\ call.inp.r = RGrid - 1
  /\ cur.tensor = call.recv.tensor
  /\ cur.memory[call.inp.op.qubits[1]] = 0

(***************************************************************************)
(* Further properties of the operation algebra (SpecOps)                   *)
(***************************************************************************)
ArityError == "Wrong number of qubits"

\* What on(newQubits) is said to do with the receiver op.
OnContract(op) ==
  /\ Len(call.inp.qubits) # Len(op.qubits) => call.res = ArityError
  /\ Len(call.inp.qubits) = Len(op.qubits) =>
       /\ call.res = "ok"
       /\ cur.kind = op.kind /\ cur.name = op.name
       /\ cur.qubits = call.inp.qubits
  /\ call.inp.self = op

\* C11: op.on(newQubits), the on of QuantumOperation, fails with the arity
\* error when len(newQubits) != op.qubit_nb and otherwise returns an
\* operation of the same type on exactly newQubits; the receiver is
\* unchanged either way.
C11_AsStated ==
  (call.fn = "on" /\ call.recv.kind \in {"gate", "comp"}) => OnContract(call.recv)

\* C11: on has been given as many qubits as the receiver has, two
\* different ones, and has returned a gate of the same type that is not
\* on those qubits: the receiver's qubit tuple repeats a qubit, and the
\* map dict(zip(self.qubits, qubits)) kept one entry for it.
C11_Collapsed ==
  /\ call.fn = "on" /\ call.res = "ok"
  /\ call.recv.kind = "gate" /\ call.recv.name = "CNOT"
  /\ Len(call.recv.qubits) = 2 /\ HasDup(call.recv.qubits)
  /\ Len(call.inp.qubits) = 2 /\ ~HasDup(call.inp.qubits)
  /\ cur.name = "CNOT" /\ cur.qubits # call.inp.qubits
  /\ cur.qubits = <<call.inp.qubits[2], call.inp.qubits[2]>>

\* A composite with a nested composite has been put on other qubits, in
\* another order.
C11_Witness ==
  /\ call.fn = "on" /\ call.res = "ok"
  /\ call.recv.kind = "comp" /\ ~HasDup(call.recv.qubits)
  /\ Len(call.recv.qubits) = 2
  /\ cur.qubits # call.recv.qubits
  /\ \E i \in DOMAIN call.recv.elements : call.recv.elements[i].kind = "comp"

\* An on with too few qubits has failed.
C11_WitnessArity ==
  /\ call.fn = "on" /\ call.res = ArityError
  /\ call.recv.kind = "gate" /\ Len(call.inp.qubits) < Len(call.recv.qubits)

(***************************************************************************)
(* Further properties of the type definitions (SpecTypes)                  *)
(***************************************************************************)
\* Every entry of the registry reg is still there, unchanged, in reg2.
Kept(reg, reg2) ==
  \A n \in DOMAIN reg : n \in DOMAIN reg2 /\ reg2[n] = reg[n]

\* C12 (as stated): the registries are write-once: a step enters a name
\* only at the class statement of a concrete type, and no step changes,
\* replaces or removes an entry.
C12_WriteOnce ==
  [][/\ \A i \in DOMAIN regs : Kept(regs[i], regs'[i])
     /\ ~(call'.fn = "class" /\ call'.recv.kind = "class" /\ call'.recv.replaced)
     /\ (\E i \in DOMAIN regs : DOMAIN regs'[i] # DOMAIN regs[i]) =>
          (call'.fn = "class" /\ ~call'.inp.abstract)]_vars

\* A class statement has completed and has put its type in the place of
\* another type that the registries held under the same name.
C12_Replaced ==
  /\ call.fn = "class" /\ call.res = "ok"
  /\ call.recv.kind = "class" /\ call.recv.replaced
  /\ OPERATIONS[call.inp.name] = cur
  /\ STDGATES[call.inp.name] = cur

(***************************************************************************)
(* The operator of a standard gate and its caches (operations.py:          *)
(* QuantumStdGate.operator).  _operator is a class attribute of            *)
(* QuantumGate, None at first; the property writes it on the instance or   *)
(* on the instance's type.  The types of the run are in the registries;    *)
(* cur is the list of the instances made so far.                           *)
(***************************************************************************)
\* A type with its base type and its attribute _operator (NoMatrix: not set
\* in the type's own namespace).
StdType(name, base, params, qubit_nb, sym, operator) ==
  [kind |-> "class", name |-> name, base |-> base, cv_params |-> params,
   cv_qubit_nb |-> qubit_nb, cv_sym_operator |-> sym, _operator |-> operator]

\* An instance with its attribute _operator (NoMatrix: not set on the
\* instance).
Instance(g, operator) ==
  [kind |-> g.kind, name |-> g.name, qubits |-> g.qubits, args |-> g.args,
   _operator |-> operator]

\* The operator of a type Y derived from X that sets its own template.
YOperator == <<<<0, -1>>, <<1, 0>>>>

\* The types of the run: X and RX derive from QuantumStdGate, Y derives
\* from X.
OperatorTypes ==
  [n \in {"X", "Y", "RX"} |->
     CASE n = "X"  -> StdType("X", "QuantumStdGate", <<>>, 1, XOperator, NoMatrix)
       [] n = "Y"  -> StdType("Y", "X", <<>>, 1, YOperator, NoMatrix)
       [] n = "RX" -> StdType("RX", "QuantumStdGate", <<"theta">>, 1,
                              <<<<7, 8>>, <<8, 7>>>>, NoMatrix)]

\* The number that an entry of a template evaluates to at the arguments
\* args: a number is itself, and the value of an expression in the
\* parameters is kept as the pair of the expression and the arguments.
Lower(entry, args) == IF entry \in {-1, 0, 1} THEN <<entry, <<>>>> ELSE <<entry, args>>

\* sym.lambdify(cv_params, cv_sym_operator)(*args)
Lambdify(cls, args) ==
  IF Len(args) # Len(cls.cv_params) THEN Fail("TypeError")
  ELSE Ok([r \in DOMAIN cls.cv_sym_operator |->
             [c \in DOMAIN cls.cv_sym_operator[r] |->
                Lower(cls.cv_sym_operator[r][c], args)]])

RECURSIVE ClassAttr(_, _)
\* The attribute _operator as a lookup on the type finds it: in the type's
\* own namespace, else in its bases'; QuantumGate._operator is None.
ClassAttr(types, name) ==
  IF name \notin DOMAIN types THEN NoMatrix
  ELSE IF types[name]._operator # NoMatrix THEN types[name]._operator
  ELSE ClassAttr(types, types[name].base)

\* self._operator: the instance's own attribute, else the type's
InstanceAttr(types, inst) ==
  IF inst._operator # NoMatrix THEN inst._operator
  ELSE ClassAttr(types, inst.name)

\* QuantumStdGate.operator: the outcome, the instance and the types after
\* the call.
OperatorOf(types, inst) ==
  IF InstanceAttr(types, inst) # NoMatrix
  THEN [r |-> Ok(InstanceAttr(types, inst)), inst |-> inst, types |-> types]
  ELSE LET M == Lambdify(types[inst.name], inst.args)
       IN IF ~M.ok THEN [r |-> M, inst |-> inst, types |-> types]
          ELSE IF inst.args # <<>>
          THEN [r |-> M, inst |-> [inst EXCEPT !._operator = M.val], types |-> types]
          ELSE [r |-> M, inst |-> inst,
                types |-> [types EXCEPT ![inst.name]._operator = M.val]]

InitOperator ==
  /\ cur = <<>>
  /\ call = NoCall
  /\ phase = "types"
  /\ OPERATIONS = OperatorTypes /\ GATES = OperatorTypes
  /\ STDGATES = OperatorTypes /\ STDCTRLGATES = NoTypes

\* A standard gate is constructed; the run keeps two instances.
NewInstance ==
  /\ Len(cur) < Len(<<1, 2>>)
  /\ \E name \in DOMAIN OperatorTypes, aq \in UpToTwo(Qubits) :
       /\ cur' = Append(cur, Instance(StdGateInit(name, aq), NoMatrix))
       /\ call' = MkCall("StdGate", NoObj, [name |-> name, args_qubits |-> aq], "ok")
  /\ phase' = "instances"
  /\ UNCHANGED regs

\* instance.operator
CallOperator ==
  \E i \in DOMAIN cur :
    LET o == OperatorOf(STDGATES, cur[i])
    IN /\ call' = MkCall("operator", cur[i], [slot |-> i, M |-> o.r.val], Outcome(o.r))
       /\ cur' = [cur EXCEPT ![i] = o.inst]
       /\ OPERATIONS' = o.types /\ GATES' = o.types /\ STDGATES' = o.types
       /\ phase' = "operators"
       /\ UNCHANGED STDCTRLGATES

NextOperator ==
  \/ NewInstance
  \/ CallOperator

SpecOperator == InitOperator /\ [][NextOperator]_vars

(***************************************************************************)
(* Properties of the operator caches (SpecOperator)                        *)
(***************************************************************************)
\* The matrix of the instance's own type at the instance's own arguments.
OwnOperator(inst) == Lambdify(OperatorTypes[inst.name], inst.args).val

\* C13: a call of operator that returns gives the matrix of the instance's
\* own type evaluated at the instance's own arguments, whatever calls were
\* made before on other instances; a matrix cached for one type is never
\* returned for an instance of another type, a subtype included.
C13_OwnOperator ==
  (call.fn = "operator" /\ call.res = "ok") => call.inp.M = OwnOperator(call.recv)

\* C13: an instance of Y, the subtype of X, is handed the matrix that an
\* earlier call cached on X.
C13_Inherited ==
  /\ call.fn = "operator" /\ call.res = "ok"
  /\ call.recv.name = "Y" /\ call.recv.args = <<>>
  /\ call.inp.M = Lambdify(OperatorTypes["X"], <<>>).val
  /\ call.inp.M # OwnOperator(call.recv)
  /\ STDGATES["X"]._operator = call.inp.M
  /\ STDGATES["Y"]._operator = NoMatrix

(***************************************************************************)
(* Equality and hash of standard gates (operations.py:                     *)
(* QuantumStdGate.__eq__, __hash__).  A type is an object of its own: its  *)
(* attribute name is the __name__ of its class statement, which a second   *)
(* type may share.  cur is the list of the operands made so far.           *)
(***************************************************************************)
\* The types of the operands: X, RX derive from QuantumStdGate; Y derives
\* from X; X2 is a type derived from X whose class statement is again
\* named X.
EqTypes ==
  [t \in {"X", "Y", "X2", "RX"} |->
     CASE t = "X"  -> [name |-> "X", base |-> "QuantumStdGate"]
       [] t = "Y"  -> [name |-> "Y", base |-> "X"]
       [] t = "X2" -> [name |-> "X", base |-> "X"]
       [] t = "RX" -> [name |-> "RX", base |-> "QuantumStdGate"]]

RECURSIVE IsSubtype(_, _)
\* issubclass(t, u)
IsSubtype(t, u) ==
  IF t = u THEN TRUE
  ELSE IF t \notin DOMAIN EqTypes THEN FALSE
  ELSE IsSubtype(EqTypes[t].base, u)

\* An instance of the type t: its attributes and its type.
Operand(t, g) ==
  [kind |-> g.kind, type |-> t, name |-> g.name, qubits |-> g.qubits, args |-> g.args]

\* QuantumStdGate.__eq__(self, other)
StdGateEq(self, other) ==
  IF IsSubtype(other.type, self.type)
  THEN IF self.name = other.name /\ self.qubits = other.qubits /\ self.args = other.args
       THEN "True" ELSE "False"
  ELSE "NotImplemented"

\* QuantumStdGate.__hash__: the hash is a function of this tuple.
StdGateHash(self) == <<self.name>> \o self.args \o self.qubits

\* a == b for the operands in the slots i and j: the __eq__ of the right
\* operand is asked first when its type is a proper subtype of the left
\* one's, the other __eq__ is asked when the first answers NotImplemented,
\* and two answers of NotImplemented leave the identity of the objects.
Equals(ops, i, j) ==
  LET a == ops[i]
      b == ops[j]
      swapped == a.type # b.type /\ IsSubtype(b.type, a.type)
      first == IF swapped THEN StdGateEq(b, a) ELSE StdGateEq(a, b)
      second == IF swapped THEN StdGateEq(a, b) ELSE StdGateEq(b, a)
  IN IF first # "NotImplemented" THEN first
     ELSE IF second # "NotImplemented" THEN second
     ELSE IF i = j THEN "True" ELSE "False"

InitEq ==
  /\ cur = <<>>
  /\ call = NoCall
  /\ phase = "types"
  /\ OPERATIONS = NoTypes /\ GATES = NoTypes
  /\ STDGATES = NoTypes /\ STDCTRLGATES = NoTypes

\* An operand is constructed; a comparison has two.
NewOperand ==
  /\ Len(cur) < Len(<<1, 2>>)
  /\ \E t \in DOMAIN EqTypes, aq \in UpToTwo(Qubits) :
       /\ cur' = Append(cur, Operand(t, StdGateInit(EqTypes[t].name, aq)))
       /\ call' = MkCall("StdGate", NoObj, [type |-> t, args_qubits |-> aq], "ok")
  /\ phase' = "operands"
  /\ UNCHANGED regs

\* a == b, with b == a and the two hashes taken alongside
CallEq ==
  /\ \E i \in DOMAIN cur, j \in DOMAIN cur :
       call' = MkCall("eq", cur[i],
                      [other |-> cur[j], same |-> i = j,
                       reflected |-> Equals(cur, j, i),
                       hash |-> StdGateHash(cur[i]),
                       hash_other |-> StdGateHash(cur[j])],
                      Equals(cur, i, j))
  /\ phase' = "compared"
  /\ UNCHANGED <<cur, regs>>

NextEq ==
  \/ NewOperand
  \/ CallEq

SpecEq == InitEq /\ [][NextEq]_vars

(***************************************************************************)
(* Properties of equality (SpecEq)                                         *)
(***************************************************************************)
\* C14: a == b exactly when a and b have the same concrete type, the same
\* qubits and the same args; a == b exactly when b == a, also between a
\* type and its subtype; equal instances have equal hashes.
C14_Equality ==
  call.fn = "eq" =>
    /\ call.res = "True" <=>
          /\ call.recv.type = call.inp.other.type
          /\ call.recv.qubits = call.inp.other.qubits
          /\ call.recv.args = call.inp.other.args
    /\ call.res = call.inp.reflected
    /\ call.res = "True" => call.inp.hash = call.inp.hash_other

\* C14: an instance of X and an instance of the derived type that is also
\* named X, on the same qubits, compare equal in both directions.
C14_EqualAcrossTypes ==
  /\ call.fn = "eq" /\ call.res = "True" /\ call.inp.reflected = "True"
  /\ call.recv.type = "X" /\ call.inp.other.type = "X2"
  /\ call.recv.qubits = call.inp.other.qubits /\ call.recv.qubits # <<>>
  /\ call.recv.args = call.inp.other.args
  /\ ~call.inp.same

(***************************************************************************)
(* Further properties of the numeric gates (SpecGate)                      *)
(***************************************************************************)
\* The qubits of a that b does not have.
Missing(a, b) == Range(a.qubits) \ Range(b.qubits)

\* C15: a @ b for gates a and b returns, after at most one padding step, a
\* gate: on exactly b.qubits when b has every qubit of a, and otherwise on
\* b.qubits followed by the qubits of a missing from b, each once; a right
\* operand that is not a gate fails with NotImplementedError.
C15_Matmul ==
  call.fn = "matmul" =>
    LET a == call.recv
        b == call.inp.other
    IN IF b.kind # "gate" THEN call.res = "NotImplementedError"
       ELSE /\ call.res = "ok"
            /\ cur.kind = "gate"
            /\ Paddings(a, b) <= 1
            /\ Paddings(a, b) = 1 <=> Missing(a, b) # {}
            /\ SubSeq(cur.qubits, 1, Len(b.qubits)) = b.qubits
            /\ Len(cur.qubits) = Len(b.qubits) + Cardinality(Missing(a, b))
            /\ Range(cur.qubits) = Range(a.qubits) \cup Range(b.qubits)
            /\ Len(Operator(cur)) = 2 ^ Len(cur.qubits)

\* C15: a gate on the qubits 1 and 2 has been composed onto a gate on the
\* qubit 0 alone, which was padded over both.
C15_Witness ==
  /\ call.fn = "matmul" /\ call.res = "ok"
  /\ Len(call.recv.qubits) = 2
  /\ call.inp.other.kind = "gate"
  /\ Cardinality(Missing(call.recv, call.inp.other)) = 2
  /\ Len(cur.qubits) = 3

\* C15: a gate has been composed onto a gate that has all its qubits, in
\* another order.
C15_WitnessSubset ==
  /\ call.fn = "matmul" /\ call.res = "ok"
  /\ call.inp.other.kind = "gate"
  /\ Missing(call.recv, call.inp.other) = {}
  /\ call.recv.qubits # call.inp.other.qubits
  /\ Len(call.recv.qubits) = 2
  /\ cur.qubits = call.inp.other.qubits

\* C15: the right operand was a circuit.
C15_WitnessNotGate ==
  /\ call.fn = "matmul" /\ call.res = "NotImplementedError"
  /\ call.inp.other.kind = "comp"

(***************************************************************************)
(* Properties of QuantumComposite.relabel (SpecOps)                        *)
(***************************************************************************)
\* A relabel of a composite with a qubit map that has every qubit of the
\* composite.
CoveringRelabel ==
  /\ call.fn = "relabel" /\ call.recv.kind = "comp"
  /\ call.inp.qubit_map.some
  /\ Range(call.recv.qubits) \subseteq DictKeys(call.inp.qubit_map.v)

\* The tuple qs mapped element by element through the dict d.
Mapped(qs, d) == [i \in DOMAIN qs |-> DictGet(d, qs[i])]

\* C16: a relabel of a composite with a covering qubit map returns a
\* composite of the same type whose children are the relabelled children
\* in order and whose qubits are the original qubits mapped element by
\* element, whatever the order of the map's entries and whatever entries
\* it has for other qubits.
C16_CompositeRelabel ==
  (CoveringRelabel /\ call.res = "ok") =>
    /\ cur.kind = "comp" /\ cur.name = call.recv.name
    /\ Len(cur.elements) = Len(call.recv.elements)
    /\ \A i \in DOMAIN cur.elements :
         Ok(cur.elements[i]) =
           Relabel(call.recv.elements[i], call.inp.qubit_map, call.inp.addr_map)
    /\ cur.qubits = Mapped(call.recv.qubits, call.inp.qubit_map.v)

\* C16: a circuit on one qubit, relabelled with a map that has an entry for
\* a second qubit, comes back as a circuit on two qubits: the values of the
\* map in the map's order.
C16_MapValues ==
  /\ CoveringRelabel /\ call.res = "ok"
  /\ Len(call.recv.qubits) = 1 /\ call.recv.elements # <<>>
  /\ Len(call.inp.qubit_map.v) = 2
  /\ cur.qubits = DictValues(call.inp.qubit_map.v)
  /\ Len(cur.qubits) = 2
  /\ cur.qubits # Mapped(call.recv.qubits, call.inp.qubit_map.v)

(***************************************************************************)
(* Properties of the standard gate constructor (SpecOps)                   *)
(***************************************************************************)
\* The gate g has the qubits and the arguments that its type declares.
WellFormed(g) ==
  /\ Len(g.qubits) = cv_qubit_nb(g.name)
  /\ Len(g.args) = Len(cv_params(g.name))

\* C18: every standard gate that exists, built by the constructor from any
\* positional arguments or returned by relabel or on, has as many qubits as
\* its type declares and as many args as its type has parameters.
C18_Arity ==
  (cur.kind = "gate" /\ cur.name \in GateTypes) => WellFormed(cur)

\* C18: the constructor of the two-qubit type CNOT, given one argument, has
\* returned a gate on one qubit.
C18_Short ==
  /\ call.fn = "StdGate" /\ call.res = "ok"
  /\ call.inp.name = "CNOT" /\ Len(call.inp.args_qubits) = 1
  /\ cur.name = "CNOT" /\ cur.qubits = call.inp.args_qubits
  /\ Len(cur.qubits) < cv_qubit_nb(cur.name)

\* C18: the constructor of the parameter-free type X, given two arguments,
\* has returned a gate with one arg; relabel has returned it with the arg
\* kept.
C18_Surplus ==
  /\ call.fn = "relabel" /\ call.res = "ok"
  /\ call.recv.name = "X" /\ Len(call.recv.args) = 1
  /\ cur.name = "X" /\ cur.args = call.recv.args
  /\ Len(cur.args) > Len(cv_params(cur.name))

(***************************************************************************)
(* Properties of controlled standard gates (SpecOps)                       *)
(***************************************************************************)
\* What the claim says of the controlled gate g, its control qubits cq, its
\* number of controls n and its target t.
CtrlContract(g, n, cq, t) ==
  /\ n = cv_qubit_nb(g.name) - cv_qubit_nb(cv_target(g.name))
  /\ cq = SubSeq(g.qubits, 1, Len(cq)) /\ (Len(cq) = n \/ cq = g.qubits)
  /\ t.kind = "gate" /\ t.name = cv_target(g.name)
  /\ t.args = g.args
  /\ cq \o t.qubits = g.qubits
  /\ Range(cq) \cap Range(t.qubits) = {}

\* C17: for every instance of a controlled gate, the number of controls is
\* the type's qubit number less the target type's, the control qubits are
\* the leading ones, the target is a gate of the target type with the same
\* args on the trailing qubits, and control qubits and target qubits are
\* disjoint and together the gate's qubits.
C17_AsStated ==
  call.fn = "target" =>
    CtrlContract(call.recv, call.inp.control_qubit_nb, call.inp.control_qubits, cur)

\* C17: the target of a CNOT built on the same qubit twice has been taken:
\* its one control qubit is also the qubit of its target.
C17_SharedQubit ==
  /\ call.fn = "target" /\ call.res = "ok"
  /\ call.recv.name = "CNOT" /\ call.recv.args = <<>>
  /\ Len(call.recv.qubits) = 2 /\ HasDup(call.recv.qubits)
  /\ call.inp.control_qubits = <<call.recv.qubits[1]>>
  /\ cur.name = "X" /\ cur.qubits = call.inp.control_qubits

\* C17: the target of a CNOT on two different qubits has been taken.
C17_Witness ==
  /\ call.fn = "target" /\ call.res = "ok"
  /\ Len(call.recv.qubits) = 2 /\ ~HasDup(call.recv.qubits)
  /\ call.inp.control_qubits = <<call.recv.qubits[1]>>
  /\ cur.name = "X" /\ cur.qubits = <<call.recv.qubits[2]>>

\* C17: the target of a CNOT built with a leading surplus argument has
\* been taken, and has that arg.
C17_WitnessArgs ==
  /\ call.fn = "target" /\ call.res = "ok"
  /\ call.recv.args # <<>> /\ cur.args = call.recv.args

(***************************************************************************)
(* Properties of failed type definitions (SpecTypes)                       *)
(***************************************************************************)
\* C19: a class statement of a controlled gate that fails on the test of
\* the parameter names leaves the four registries as they were.
C19_FailedDefinition ==
  [][(call'.fn = "class" /\ call'.res = "AssertionError") => regs' = regs]_vars

\* C19: a class statement of a controlled gate has failed on the test of
\* the parameter names, and the four registries hold the type, with
\* parameters that differ from its target's and without an operator.
C19_Registered ==
  /\ call.fn = "class" /\ call.res = "AssertionError"
  /\ \A i \in DOMAIN regs :
       /\ call.inp.name \in DOMAIN regs[i]
       /\ ~regs[i][call.inp.name].complete
       /\ regs[i][call.inp.name].cv_params = AnnParams(call.inp.anns)
       /\ regs[i][call.inp.name].cv_params # regs[i][call.inp.name].cv_target.cv_params
       /\ regs[i][call.inp.name].cv_sym_operator = NoMatrix

====
